---- MODULE Spec2Model ----
(***************************************************************************)
(* A model of the misspell command (cmd/misspell/main.go): flag handling,  *)
(* the single-stream stdin mode, the concurrent file pipeline (dispatcher, *)
(* bounded path channel, N workers, result channel), and of the build-time *)
(* rule generator (internal/gen/gen.go).                                   *)
(*                                                                         *)
(* Text is modelled as a sequence of words.  "teh" is a typo of the        *)
(* compiled rule table (corrected to "the"), "ok" is a word no rule        *)
(* matches, and "NUL" stands for binary content, which ReadTextFile        *)
(* refuses.  An output stream is a sequence of tokens; "\n" ends a line.   *)
(***************************************************************************)
EXTENDS Integers, Sequences, FiniteSets, TLC

\* ------------------------------------------------------------- bounds
\* Largest worker count (-j, and the number of CPUs) that is explored.
MaxWorkers == 2
\* Capacity of the path channel (make(chan string, 64)), scaled down so
\* that the explored path lists overflow it.
QueueCap == 1

\* ------------------------------------------------------------- helpers

RECURSIVE Flatten(_)
Flatten(ss) == IF ss = <<>> THEN <<>> ELSE Head(ss) \o Flatten(Tail(ss))

SeqsUpTo(S, n) == UNION {[1..k -> S] : k \in 0..n}

Range(s) == {s[i] : i \in DOMAIN s}

\* ------------------------------------------------------------- the file tree
\* One directory "d" holding two regular files; "nx" names nothing.
Paths == {"d/a", "d/b"}

\* filepath.Walk(filename, fn) with the callback of main: the paths that
\* are sent on the channel for one argument, in walk (lexical) order.  A
\* directory is descended into and not sent itself; a name that cannot be
\* stat'ed reaches the callback with err != nil and sends nothing.
Walk(filename) ==
    CASE filename = "d" -> <<"d/a", "d/b">>
      [] filename \in Paths -> <<filename>>
      [] OTHER -> <<>>

\* The paths the dispatcher sends for the whole argument list.
WalkAll(args) == Flatten([i \in DOMAIN args |-> Walk(args[i])])

\* ------------------------------------------------------------- the engine
\* File contents that are explored: empty, binary, no typo, one typo, two.
Contents == {<<>>, <<"NUL">>, <<"ok">>, <<"teh">>, <<"teh", "ok", "teh">>}
\* The file trees that are explored: d/a holds any of these contents, d/b
\* one typo or binary content.
Trees == {t \in [Paths -> Contents] : t["d/b"] \in {<<"teh">>, <<"NUL">>}}

IsTypo(word) == word = "teh"
Correct(word) == IF IsTypo(word) THEN "the" ELSE word

\* misspell.ReadTextFile: an error for binary content, else the text.
ReadTextFile(text) ==
    IF "NUL" \in Range(text) THEN [err |-> TRUE, orig |-> <<>>]
    ELSE [err |-> FALSE, orig |-> text]

\* The diffs of a text, in document order; Filename is filled in by the caller.
RECURSIVE DiffsFrom(_, _)
DiffsFrom(text, col) ==
    IF col > Len(text) THEN <<>>
    ELSE IF IsTypo(text[col])
         THEN <<[Filename |-> "", Line |-> 1, Column |-> col,
                 Original |-> text[col], Corrected |-> Correct(text[col])]>>
              \o DiffsFrom(text, col + 1)
         ELSE DiffsFrom(text, col + 1)

\* Replacer.Replace / Replacer.ReplaceGo: the corrected text and the diffs.
Replace(orig) ==
    [updated |-> [i \in DOMAIN orig |-> Correct(orig[i])],
     changes |-> DiffsFrom(orig, 1)]

\* ------------------------------------------------------------- output
\* template.Execute of defaultWrite / defaultRead on one diff: the record's
\* bytes, without the line end.
Execute(tmpl, diff) == <<diff.Filename, ToString(diff.Column), tmpl>>

\* The template the -w flag selects (createTemplates returns the same one
\* twice for csv, sqlite and custom formats).
TemplateOf(format, writeit) ==
    IF format # "" THEN format
    ELSE IF writeit THEN "corrected" ELSE "misspelling"

\* (*log.Logger).Println: the whole line goes to the writer in one Write
\* under the logger's mutex; a logger on io.Discard drops it.
Println(out, discard, s) == IF discard THEN out ELSE out \o s \o <<"\n">>

\* ------------------------------------------------------------- state
VARIABLES
    mainPC,      \* where main is: "flags", "workers", "mode", "locale", "dict",
                 \* "logger", "templates", "args", "stdin", "walk", "collect", "exited"
    exitStatus,  \* the process exit status; -1 while the process runs
    workers,     \* *workers
    writeit,     \* *writeit
    quietFlag,   \* *quietFlag
    exitError,   \* *exitError
    format,      \* *format
    args,        \* flag.Args()
    discard,     \* whether the output logger writes to io.Discard
    content0,    \* the content of every file when the process starts
    content,     \* the content of every file now
    pending,     \* the paths filepath.Walk has still to send
    enqueued,    \* the paths sent on the channel so far, in order
    c,           \* the path channel's buffer
    closed,      \* whether c is closed
    results,     \* the result channel's buffer
    received,    \* how many results main has received
    count,       \* main's count
    wk,          \* the worker goroutines' locals
    processed,   \* how many times each path was taken from the channel
    returned,    \* the diffs the engine returned, summed over all files read
    stdinRest,   \* the lines of stdin not yet read
    stdout,      \* os.Stdout (or the -o file)
    stderr,      \* os.Stderr
    genPC,       \* where the generator is: "read", "tuples", "written"
    data,        \* the decoded JSON word list: correction -> typos
    tuples,      \* the generator's tuples
    genOut       \* the tuple sequence written to the Go file

mainVars == <<mainPC, exitStatus, workers, writeit, quietFlag, exitError,
              format, args, discard, count, stdinRest>>
pipeVars == <<pending, enqueued, c, closed, results, received, wk,
              processed, returned>>
ioVars == <<content0, content, stdout, stderr>>
genVars == <<genPC, data, tuples, genOut>>
vars == <<mainVars, pipeVars, ioVars, genVars>>

\* A worker's locals on entry to (and on every return to) its range loop.
Idle(cnt, sent) ==
    [pc |-> "range", filename |-> "", updated |-> <<>>, changes |-> <<>>,
     i |-> 0, buffer |-> <<>>, count |-> cnt, sent |-> sent]

\* The flag defaults, before flag.Parse.
Init ==
    /\ mainPC = "flags"
    /\ exitStatus = -1
    /\ workers = 0
    /\ writeit = FALSE
    /\ quietFlag = FALSE
    /\ exitError = FALSE
    /\ format = ""
    /\ args = <<>>
    /\ discard = FALSE
    /\ content0 \in Trees
    /\ content = content0
    /\ pending = <<>>
    /\ enqueued = <<>>
    /\ c = <<>>
    /\ closed = FALSE
    /\ results = <<>>
    /\ received = 0
    /\ count = 0
    /\ wk = <<>>
    /\ processed = [p \in Paths |-> 0]
    /\ returned = 0
    /\ stdinRest = <<>>
    /\ stdout = <<>>
    /\ stderr = <<>>
    /\ genPC = "read"
    /\ data = <<>>
    /\ tuples = <<>>
    /\ genOut = <<>>

\* log.Fatal / log.Fatalf: the message on os.Stderr, exit status 1.
Fatal ==
    /\ stderr' = stderr \o <<"FATAL", "\n">>
    /\ mainPC' = "exited"
    /\ exitStatus' = 1

\* if count != 0 && *exitError { os.Exit(2) }, else main returns.
ExitCode(cnt, flag) == IF cnt # 0 /\ flag THEN 2 ELSE 0

\* os.Exit(code), or main returning (code 0).
Exit(code) ==
    /\ mainPC' = "exited"
    /\ exitStatus' = code

\* ------------------------------------------------------------- main: flags
\* Input sets for the options whose value only decides between going on
\* and a fatal error.
Modes == {"text", "go", "auto", "java"}
Locales == {"", "us", "UK", "nz", "fr"}
UserDicts == {"", "ok.csv", "missing.csv", "threefields.csv"}
OutFlags == {"stdout", "/nodir/out"}
Formats == {"", "sqlite3", "{{"}
\* Argument lists: none (stdin mode), a directory, a file, a name that does
\* not exist, a directory with a file inside it (more paths than the
\* channel holds), and one file twice.
ArgLists ==
    {<<>>, <<"d">>, <<"d/a">>, <<"nx">>, <<"d", "d/a">>, <<"d/a", "d/a">>}

\* strings.ToUpper on the explored locales.
ToUpper(locale) ==
    CASE locale = "us" -> "US"
      [] locale = "nz" -> "NZ"
      [] locale = "fr" -> "FR"
      [] OTHER -> locale

\* readUserDict: whether it returns an error (the file cannot be opened, or
\* a record has not exactly two fields).
ReadUserDictFails(userDictPath) ==
    userDictPath \in {"missing.csv", "threefields.csv"}

\* Command lines: well-formed, asking for help (-h), and malformed (a flag
\* that is not defined, or a value that does not parse, as in -j x).
CmdLines == {"ok", "help", "bad"}

\* flag.Parse on the default flag set, which is made with flag.ExitOnError
\* (a malformed command line prints the usage and exits with 2, -h prints
\* it and exits with 0), then -v and -legal.
FlagParse ==
    /\ mainPC = "flags"
    /\ \E cmdline \in CmdLines, showVersion \in BOOLEAN, showLegal \in BOOLEAN,
          j \in -1..MaxWorkers, w \in BOOLEAN, q \in BOOLEAN,
          e \in BOOLEAN, a \in ArgLists :
          IF cmdline # "ok"
          THEN /\ stderr' = stderr \o <<"USAGE", "\n">>
               /\ Exit(IF cmdline = "bad" THEN 2 ELSE 0)
               /\ UNCHANGED <<workers, writeit, quietFlag, exitError, args, stdout>>
          ELSE IF showVersion \/ showLegal
          THEN /\ stdout' = stdout \o <<IF showVersion THEN "version" ELSE "legal", "\n">>
               /\ Exit(0)
               /\ UNCHANGED <<workers, writeit, quietFlag, exitError, args, stderr>>
          ELSE /\ mainPC' = "workers"
               /\ workers' = j
               /\ writeit' = w
               /\ quietFlag' = q
               /\ exitError' = e
               /\ args' = a
               /\ UNCHANGED <<exitStatus, stdout, stderr>>
    /\ UNCHANGED <<format, discard, count, stdinRest, pipeVars, content0, content,
                   genVars>>

\* Number of workers: -j < 0 is fatal, 0 is runtime.NumCPU(), -debug forces 1.
CheckWorkers ==
    /\ mainPC = "workers"
    /\ \E numCPU \in 1..MaxWorkers, debugFlag \in BOOLEAN :
          IF workers < 0
          THEN Fatal /\ UNCHANGED workers
          ELSE /\ workers' = IF debugFlag THEN 1
                             ELSE IF workers = 0 THEN numCPU ELSE workers
               /\ mainPC' = "mode"
               /\ UNCHANGED <<exitStatus, stderr>>
    /\ UNCHANGED <<writeit, quietFlag, exitError, format, args, discard, count,
                   stdinRest, pipeVars, content0, content, stdout, genVars>>

\* Source input mode.
CheckMode ==
    /\ mainPC = "mode"
    /\ \E mode \in Modes :
          IF mode \in {"auto", "go", "text"}
          THEN mainPC' = "locale" /\ UNCHANGED <<exitStatus, stderr>>
          ELSE Fatal
    /\ UNCHANGED <<workers, writeit, quietFlag, exitError, format, args, discard,
                   count, stdinRest, pipeVars, content0, content, stdout, genVars>>

\* Regional variations.
CheckLocale ==
    /\ mainPC = "locale"
    /\ \E locale \in Locales :
          IF ToUpper(locale) \in {"", "US", "UK", "GB"}
          THEN mainPC' = "dict" /\ UNCHANGED <<exitStatus, stderr>>
          ELSE Fatal
    /\ UNCHANGED <<workers, writeit, quietFlag, exitError, format, args, discard,
                   count, stdinRest, pipeVars, content0, content, stdout, genVars>>

\* User defined words.
LoadUserDict ==
    /\ mainPC = "dict"
    /\ \E userDictPath \in UserDicts :
          IF userDictPath # "" /\ ReadUserDictFails(userDictPath)
          THEN Fatal
          ELSE mainPC' = "logger" /\ UNCHANGED <<exitStatus, stderr>>
    /\ UNCHANGED <<workers, writeit, quietFlag, exitError, format, args, discard,
                   count, stdinRest, pipeVars, content0, content, stdout, genVars>>

\* newLogger: quiet or /dev/null discards; a file that cannot be created is fatal.
NewLogger ==
    /\ mainPC = "logger"
    /\ \E outFlag \in OutFlags :
          IF quietFlag \/ outFlag = "/dev/null"
          THEN /\ discard' = TRUE
               /\ mainPC' = "templates"
               /\ UNCHANGED <<exitStatus, stderr>>
          ELSE IF outFlag = "/nodir/out"
          THEN Fatal /\ UNCHANGED discard
          ELSE /\ discard' = FALSE
               /\ mainPC' = "templates"
               /\ UNCHANGED <<exitStatus, stderr>>
    /\ UNCHANGED <<workers, writeit, quietFlag, exitError, format, args, count,
                   stdinRest, pipeVars, content0, content, stdout, genVars>>

\* createTemplates, and the header of the sqlite format.
CreateTemplates ==
    /\ mainPC = "templates"
    /\ \E f \in Formats :
          IF f = "{{"
          THEN Fatal /\ UNCHANGED <<format, stdout>>
          ELSE /\ format' = f
               /\ stdout' = IF f = "sqlite3"
                            THEN Println(stdout, discard, <<"BEGIN">>)
                            ELSE stdout
               /\ mainPC' = "args"
               /\ UNCHANGED <<exitStatus, stderr>>
    /\ UNCHANGED <<workers, writeit, quietFlag, exitError, args, discard, count,
                   stdinRest, pipeVars, content0, content, genVars>>

\* ------------------------------------------------------------- main: stdin mode
\* Largest number of stdin lines that is explored.
MaxLines == 2
StdinInputs == SeqsUpTo({<<"ok">>, <<"teh">>, <<"teh", "teh">>}, MaxLines)

\* What the callback next writes to errOut for one diff (main counts the
\* diff in either case): nothing when quiet, else the record and a line end.
next(quiet, tmpl, diff) ==
    IF quiet THEN <<>>
    ELSE Execute(tmpl, [diff EXCEPT !.Filename = "stdin"]) \o <<"\n">>

\* len(args) == 0: the stdin/stdout mode is entered.
StdinStart ==
    /\ mainPC = "args"
    /\ Len(args) = 0
    /\ \E input \in StdinInputs : stdinRest' = input
    /\ count' = 0
    /\ mainPC' = "stdin"
    /\ UNCHANGED <<exitStatus, workers, writeit, quietFlag, exitError, format,
                   args, discard, pipeVars, ioVars, genVars>>

\* r.ReplaceReader on the next line of stdin: every diff of the line goes
\* to next, then the corrected line to fileOut.  Reading stdin may fail,
\* and so may writing the corrected line to os.Stdout (io.Discard never
\* fails); ReplaceReader then returns the error and main calls log.Fatal.
StdinLine ==
    /\ mainPC = "stdin"
    /\ stdinRest # <<>>
    /\ \E outcome \in {"ok", "readerr", "writeerr"} :
          LET r == Replace(Head(stdinRest))
              n == Len(r.changes)
              tmpl == TemplateOf(format, writeit)
              recs == Flatten([k \in 1..n |-> next(quietFlag, tmpl, r.changes[k])])
          IN  /\ outcome = "writeerr" => writeit
              /\ IF outcome = "readerr"
                 THEN Fatal /\ UNCHANGED <<count, stdinRest, stdout>>
                 ELSE IF outcome = "writeerr"
                 THEN /\ count' = count + n
                      /\ stderr' = stderr \o recs \o <<"FATAL", "\n">>
                      /\ Exit(1)
                      /\ UNCHANGED <<stdinRest, stdout>>
                 ELSE /\ count' = count + n
                      /\ IF writeit
                         THEN /\ stderr' = stderr \o recs
                              /\ stdout' = stdout \o r.updated \o <<"\n">>
                         ELSE /\ stdout' = stdout \o recs
                              /\ UNCHANGED stderr
                      /\ stdinRest' = Tail(stdinRest)
                      /\ UNCHANGED <<mainPC, exitStatus>>
    /\ UNCHANGED <<workers, writeit, quietFlag, exitError, format, args, discard,
                   pipeVars, content0, content, genVars>>

\* ReplaceReader returned nil: the sqlite footer goes to fileOut, and the
\* exit status is 2 when -error is set and diffs were counted.
StdinEOF ==
    /\ mainPC = "stdin"
    /\ stdinRest = <<>>
    /\ stdout' = IF format = "sqlite3" /\ writeit
                 THEN stdout \o <<"COMMIT;">> ELSE stdout
    /\ Exit(ExitCode(count, exitError))
    /\ UNCHANGED <<workers, writeit, quietFlag, exitError, format, args, discard,
                   count, stdinRest, pipeVars, content0, content, stderr, genVars>>

\* ------------------------------------------------------------- main: file mode
\* The channels are made and the workers started.
Spawn ==
    /\ mainPC = "args"
    /\ Len(args) # 0
    /\ wk' = [w \in 1..workers |-> Idle(0, 0)]
    /\ pending' = WalkAll(args)
    /\ mainPC' = "walk"
    /\ UNCHANGED <<exitStatus, workers, writeit, quietFlag, exitError, format,
                   args, discard, count, stdinRest, enqueued, c, closed, results,
                   received, processed, returned, ioVars, genVars>>

\* c <- path: blocks while the channel's buffer is full.
Enqueue ==
    /\ mainPC = "walk"
    /\ pending # <<>>
    /\ Len(c) < QueueCap
    /\ c' = Append(c, Head(pending))
    /\ enqueued' = Append(enqueued, Head(pending))
    /\ pending' = Tail(pending)
    /\ UNCHANGED <<mainVars, closed, results, received, wk, processed, returned,
                   ioVars, genVars>>

\* Mutant of Close: the channel is never closed.
CloseForgotten ==
    /\ mainPC = "walk"
    /\ pending = <<>>
    /\ count' = 0
    /\ mainPC' = "collect"
    /\ UNCHANGED <<exitStatus, workers, writeit, quietFlag, exitError, format,
                   args, discard, stdinRest, pending, enqueued, c, closed, results,
                   received, wk, processed, returned, ioVars, genVars>>

\* close(c), once every argument has been walked; count := 0.
Close ==
    /\ mainPC = "walk"
    /\ pending = <<>>
    /\ closed' = TRUE
    /\ count' = 0
    /\ mainPC' = "collect"
    /\ UNCHANGED <<exitStatus, workers, writeit, quietFlag, exitError, format,
                   args, discard, stdinRest, pending, enqueued, c, results,
                   received, wk, processed, returned, ioVars, genVars>>

\* changed := <-results; count += changed.
Collect ==
    /\ mainPC = "collect"
    /\ received < workers
    /\ results # <<>>
    /\ count' = count + Head(results)
    /\ results' = Tail(results)
    /\ received' = received + 1
    /\ UNCHANGED <<mainPC, exitStatus, workers, writeit, quietFlag, exitError,
                   format, args, discard, stdinRest, pending, enqueued, c, closed,
                   wk, processed, returned, ioVars, genVars>>

\* After the last result: the sqlite footer, then the exit status.
Finish ==
    /\ mainPC = "collect"
    /\ received = workers
    /\ stdout' = IF format = "sqlite3"
                 THEN Println(stdout, discard, <<"COMMIT;">>) ELSE stdout
    /\ Exit(ExitCode(count, exitError))
    /\ UNCHANGED <<workers, writeit, quietFlag, exitError, format, args, discard,
                   count, stdinRest, pipeVars, content0, content, stderr, genVars>>

\* ------------------------------------------------------------- worker
\* Worker w was started and the process has not exited.
Running(w) == w \in DOMAIN wk /\ mainPC \in {"walk", "collect"}

\* for filename := range files: a path is received.
WorkerRecv(w) ==
    /\ Running(w)
    /\ wk[w].pc = "range"
    /\ c # <<>>
    /\ wk' = [wk EXCEPT ![w].pc = "read", ![w].filename = Head(c)]
    /\ c' = Tail(c)
    /\ processed' = [processed EXCEPT ![Head(c)] = @ + 1]
    /\ UNCHANGED <<mainVars, pending, enqueued, closed, results, received,
                   returned, ioVars, genVars>>

\* Mutant of RangeEnds: the loop ends as soon as the channel is empty.
RangeEndsWhenEmpty(buf, isClosed) == buf = <<>>

\* When a range over the channel ends: the channel is closed and empty.
RangeEnds(buf, isClosed) == buf = <<>> /\ isClosed

\* The range loop ends on the closed, drained channel: results <- count.
WorkerSend(w) ==
    /\ Running(w)
    /\ wk[w].pc = "range"
    /\ RangeEnds(c, closed)
    /\ Len(results) < workers
    /\ results' = Append(results, wk[w].count)
    /\ wk' = [wk EXCEPT ![w].pc = "done", ![w].sent = @ + 1]
    /\ UNCHANGED <<mainVars, pending, enqueued, c, closed, received, processed,
                   returned, ioVars, genVars>>

\* Mutant of AddCount: counts files with diffs, not diffs.
AddCountPerFile(cnt, changes) == cnt + 1

\* count += len(changes).
AddCount(cnt, changes) == cnt + Len(changes)

\* Mutant of LogReadError: the failed read is skipped without a log line.
LogReadErrorSilent(log, filename) == log

\* log.Println(err) of a failed read, on the standard logger (os.Stderr).
LogReadError(log, filename) == log \o <<"ERR", filename, "\n">>

\* ReadTextFile and Replace: a read error is logged and the file skipped;
\* an empty file and a file without diffs are skipped silently.
WorkerRead(w) ==
    /\ Running(w)
    /\ wk[w].pc = "read"
    /\ LET f == wk[w].filename
           rd == ReadTextFile(content[f])
           r == Replace(rd.orig)
       IN  IF rd.err
           THEN /\ stderr' = LogReadError(stderr, f)
                /\ wk' = [wk EXCEPT ![w] = Idle(wk[w].count, wk[w].sent)]
                /\ UNCHANGED returned
           ELSE IF rd.orig = <<>> \/ Len(r.changes) = 0
           THEN /\ wk' = [wk EXCEPT ![w] = Idle(wk[w].count, wk[w].sent)]
                /\ UNCHANGED <<stderr, returned>>
           ELSE /\ wk' = [wk EXCEPT ![w].pc = "format",
                                    ![w].updated = r.updated,
                                    ![w].changes = r.changes,
                                    ![w].i = 1,
                                    ![w].count = AddCount(@, r.changes)]
                /\ returned' = returned + Len(r.changes)
                /\ UNCHANGED stderr
    /\ UNCHANGED <<mainVars, pending, enqueued, c, closed, results, received,
                   processed, content0, content, stdout, genVars>>

\* Mutant of WorkerFormat: the template is executed on the shared stream
\* itself (as the stdin mode does), leaving only the line end to Println.
WorkerFormatShared(w) ==
    /\ Running(w)
    /\ wk[w].pc = "format"
    /\ LET diff == [wk[w].changes[wk[w].i] EXCEPT !.Filename = wk[w].filename]
       IN  stdout' = IF discard THEN stdout
                     ELSE stdout \o Execute(TemplateOf(format, writeit), diff)
    /\ wk' = [wk EXCEPT ![w].pc = "print"]
    /\ UNCHANGED <<mainVars, pending, enqueued, c, closed, results, received,
                   processed, returned, content0, content, stderr, genVars>>

\* The diff gets its file name and is formatted into the worker's own buffer.
WorkerFormat(w) ==
    /\ Running(w)
    /\ wk[w].pc = "format"
    /\ LET diff == [wk[w].changes[wk[w].i] EXCEPT !.Filename = wk[w].filename]
       IN  wk' = [wk EXCEPT ![w].pc = "print",
                            ![w].buffer = Execute(TemplateOf(format, writeit), diff)]
    /\ UNCHANGED <<mainVars, pending, enqueued, c, closed, results, received,
                   processed, returned, ioVars, genVars>>

\* Mutant of AfterLastDiff: the file is written back whatever the mode.
AfterLastDiffAlways(wr) == "write"

\* if writeit { os.WriteFile(...) }: where a worker goes after the last diff.
AfterLastDiff(wr) == IF wr THEN "write" ELSE "range"

\* output.Println(buffer.String()), then the next diff, the write-back or
\* the next path.
WorkerPrint(w) ==
    /\ Running(w)
    /\ wk[w].pc = "print"
    /\ stdout' = Println(stdout, discard, wk[w].buffer)
    /\ wk' = IF wk[w].i < Len(wk[w].changes)
             THEN [wk EXCEPT ![w].pc = "format", ![w].i = @ + 1, ![w].buffer = <<>>]
             ELSE IF AfterLastDiff(writeit) = "write"
             THEN [wk EXCEPT ![w].pc = "write", ![w].buffer = <<>>]
             ELSE [wk EXCEPT ![w] = Idle(wk[w].count, wk[w].sent)]
    /\ UNCHANGED <<mainVars, pending, enqueued, c, closed, results, received,
                   processed, returned, content0, content, stderr, genVars>>

\* os.WriteFile, first half: the file is opened with O_TRUNC.  The open may
\* fail (permission denied); the error is dropped.
WorkerWriteOpen(w) ==
    /\ Running(w)
    /\ wk[w].pc = "write"
    /\ \E opened \in BOOLEAN :
          IF opened
          THEN /\ content' = [content EXCEPT ![wk[w].filename] = <<>>]
               /\ wk' = [wk EXCEPT ![w].pc = "writedata"]
          ELSE /\ wk' = [wk EXCEPT ![w] = Idle(wk[w].count, wk[w].sent)]
               /\ UNCHANGED content
    /\ UNCHANGED <<mainVars, pending, enqueued, c, closed, results, received,
                   processed, returned, content0, stdout, stderr, genVars>>

\* os.WriteFile, second half: the corrected text is written.  The write may
\* fail (disk full) and leave the file truncated; the error is dropped.
WorkerWriteData(w) ==
    /\ Running(w)
    /\ wk[w].pc = "writedata"
    /\ \E written \in BOOLEAN :
          content' = IF written
                     THEN [content EXCEPT ![wk[w].filename] = wk[w].updated]
                     ELSE content
    /\ wk' = [wk EXCEPT ![w] = Idle(wk[w].count, wk[w].sent)]
    /\ UNCHANGED <<mainVars, pending, enqueued, c, closed, results, received,
                   processed, returned, content0, stdout, stderr, genVars>>

worker(w) ==
    \/ WorkerRecv(w)
    \/ WorkerRead(w)
    \/ WorkerFormat(w)
    \/ WorkerPrint(w)
    \/ WorkerWriteOpen(w)
    \/ WorkerWriteData(w)
    \/ WorkerSend(w)

\* ------------------------------------------------------------- the command
main ==
    \/ FlagParse
    \/ CheckWorkers
    \/ CheckMode
    \/ CheckLocale
    \/ LoadUserDict
    \/ NewLogger
    \/ CreateTemplates
    \/ StdinStart
    \/ StdinLine
    \/ StdinEOF
    \/ Spawn
    \/ Enqueue
    \/ Close
    \/ Collect
    \/ Finish

Next ==
    \/ main
    \/ \E w \in 1..MaxWorkers : worker(w)

Spec == Init /\ [][Next]_vars

\* The Go scheduler runs every goroutine that can take a step.
FairSpec == Spec /\ WF_vars(Next)

\* ------------------------------------------------------------- the generator
\* Largest number of typos listed under one correction.
MaxTypos == 2
Corrections == {"c1", "c2"}
\* Typos are strings over the letters 1 < 2, written as sequences.
Typos == {<<1>>, <<2>>, <<1, 1>>}
\* The JSON word lists that are explored: a map from correction to typos.
WordLists ==
    UNION {[S -> SeqsUpTo(Typos, MaxTypos)] : S \in SUBSET Corrections}

\* The orders in which a range over a map with key set S can meet the keys.
Orders(S) ==
    {o \in [1..Cardinality(S) -> S] : \A i, j \in DOMAIN o : i # j => o[i] # o[j]}

\* cmp.Compare on integers.
Compare(x, y) == IF x < y THEN -1 ELSE IF x > y THEN 1 ELSE 0

\* cmp.Compare on strings: lexicographic.
RECURSIVE CompareStr(_, _)
CompareStr(a, b) ==
    IF a = <<>> /\ b = <<>> THEN 0
    ELSE IF a = <<>> THEN -1
    ELSE IF b = <<>> THEN 1
    ELSE IF Head(a) # Head(b) THEN Compare(Head(a), Head(b))
    ELSE CompareStr(Tail(a), Tail(b))

\* The comparison write sorts by: longest typo first, equal lengths in
\* alphabetical order of the typo.
TupleCmp(a, b) ==
    IF Len(a.Typo) = Len(b.Typo)
    THEN CompareStr(a.Typo, b.Typo)
    ELSE Compare(Len(b.Typo), Len(a.Typo))

\* slices.SortStableFunc: elements that compare equal keep their order.
RECURSIVE InsertStable(_, _)
InsertStable(t, sorted) ==
    IF sorted = <<>> THEN <<t>>
    ELSE IF TupleCmp(t, Head(sorted)) < 0 THEN <<t>> \o sorted
    ELSE <<Head(sorted)>> \o InsertStable(t, Tail(sorted))

RECURSIVE SortStableFunc(_)
SortStableFunc(s) ==
    IF s = <<>> THEN <<>>
    ELSE InsertStable(s[Len(s)], SortStableFunc(SubSeq(s, 1, Len(s) - 1)))

\* toTuples, with the map's keys met in the given order.
toTuples(d, order) ==
    Flatten([k \in DOMAIN order |->
                [n \in DOMAIN d[order[k]] |->
                    [Typo |-> d[order[k]][n], Correction |-> order[k]]]])

\* read: the JSON file is decoded.
GenRead ==
    /\ genPC = "read"
    /\ \E d \in WordLists : data' = d
    /\ genPC' = "decoded"
    /\ UNCHANGED <<tuples, genOut, mainVars, pipeVars, ioVars>>

\* toTuples(data): Go ranges over the map in an unspecified order.
GenToTuples ==
    /\ genPC = "decoded"
    /\ \E order \in Orders(DOMAIN data) : tuples' = toTuples(data, order)
    /\ genPC' = "tuples"
    /\ UNCHANGED <<data, genOut, mainVars, pipeVars, ioVars>>

\* write: the tuples are sorted and handed to the template.
GenWrite ==
    /\ genPC = "tuples"
    /\ genOut' = SortStableFunc(tuples)
    /\ genPC' = "written"
    /\ UNCHANGED <<data, tuples, mainVars, pipeVars, ioVars>>

generate == GenRead \/ GenToTuples \/ GenWrite

\* One run of the generator on one word list.
GenInit == Init /\ content0 = [p \in Paths |-> <<"teh">>]

GenSpec == GenInit /\ [][generate]_vars

\* ------------------------------------------------------------- properties
\* A file-mode run that reached the end of main.
Done == mainPC = "exited" /\ closed

Distinct(s) == \A i, j \in DOMAIN s : i # j => s[i] # s[j]

Occurrences(s, x) == Cardinality({i \in DOMAIN s : s[i] = x})

\* The number of diffs the engine returns for a file with the given content
\* (none when the read fails or the file is empty).
NumDiffs(text) ==
    LET rd == ReadTextFile(text)
    IN  IF rd.err THEN 0 ELSE Len(Replace(rd.orig).changes)

\* The sum of NumDiffs over a list of paths, for the contents at the start.
RECURSIVE ExpectedTotal(_)
ExpectedTotal(paths) ==
    IF paths = <<>> THEN 0
    ELSE NumDiffs(content0[Head(paths)]) + ExpectedTotal(Tail(paths))

\* C1: after the dispatcher has received all worker results, its total is
\* the sum of the diffs the engine returned for the enqueued paths; when the
\* enqueued paths are a set (or nothing is written back) that is the sum of
\* the diffs of the files' contents, whatever the number of workers and the
\* interleaving.
C1_TotalIsSum ==
    Done =>
        /\ count = returned
        /\ (Distinct(enqueued) \/ ~writeit) => count = ExpectedTotal(enqueued)

\* Two files with one typo each, two workers: the total is 2.
C1_Witness ==
    /\ Done
    /\ workers = 2
    /\ enqueued = <<"d/a", "d/b">>
    /\ \A p \in Paths : NumDiffs(content0[p]) = 1
    /\ \A w \in DOMAIN wk : wk[w].count = 1
    /\ count = 2

\* The system can take a step unless the process has exited.
NoDeadlock == mainPC = "exited" \/ ENABLED Next

\* The result channel has room for the result of every worker still to send.
SendNeverBlocks ==
    \A w \in DOMAIN wk : wk[w].pc # "done" => Len(results) < workers

\* The dispatcher waits on a full channel only while some worker is busy
\* with a file or about to take one.
EnqueueUnblocks ==
    (mainPC = "walk" /\ pending # <<>> /\ Len(c) = QueueCap) =>
        \E w \in DOMAIN wk : wk[w].pc # "done"

\* C2: the file pipeline terminates.  Once the workers are started, the
\* dispatcher eventually has enqueued every path and closed the channel,
\* every worker has left its loop and main has received all N results; and
\* no reachable state is a deadlock.
C2_Terminates ==
    /\ (mainPC = "walk") ~>
          (/\ Done
           /\ pending = <<>>
           /\ c = <<>>
           /\ received = workers
           /\ \A w \in DOMAIN wk : wk[w].pc = "done")
    /\ []NoDeadlock
    /\ []SendNeverBlocks
    /\ []EnqueueUnblocks

\* A finished run with more paths than the channel and the workers hold.
C2_Witness ==
    /\ Done
    /\ workers = 1
    /\ Len(enqueued) > QueueCap + workers
    /\ \A w \in DOMAIN wk : wk[w].pc = "done"

\* C3: every worker sends its count exactly once, after the channel is
\* closed and empty and never while it processes a file; main finishes
\* only with exactly N results received, one from each worker.
C3_ReportOnce ==
    /\ \A w \in DOMAIN wk :
          /\ wk[w].sent <= 1
          /\ wk[w].sent = 1 <=> wk[w].pc = "done"
          /\ wk[w].sent = 1 => closed /\ c = <<>> /\ wk[w].filename = ""
    /\ Len(results) + received = Cardinality({w \in DOMAIN wk : wk[w].sent = 1})
    /\ Done => /\ received = workers
               /\ results = <<>>
               /\ DOMAIN wk = 1..workers
               /\ \A w \in DOMAIN wk : wk[w].sent = 1

\* Two workers have both reported after sharing two paths.
C3_Witness ==
    /\ Done
    /\ workers = 2
    /\ Len(enqueued) >= 2
    /\ \A w \in DOMAIN wk : wk[w].sent = 1 /\ wk[w].count > 0

\* The templates of the explored formats.
Templates == {"corrected", "misspelling", "sqlite3"}

\* A stream that is a sequence of complete lines: formatted records, and
\* the header and footer of the sqlite format.
RECURSIVE CompleteRecords(_)
CompleteRecords(s) ==
    IF s = <<>> THEN TRUE
    ELSE IF Len(s) >= 2 /\ s[1] \in {"BEGIN", "COMMIT;"} /\ s[2] = "\n"
    THEN CompleteRecords(SubSeq(s, 3, Len(s)))
    ELSE IF Len(s) >= 4 /\ s[1] \in Paths /\ s[3] \in Templates /\ s[4] = "\n"
    THEN CompleteRecords(SubSeq(s, 5, Len(s)))
    ELSE FALSE

\* C4: in file mode the output sink always holds a sequence of complete
\* formatted records: a worker formats a diff into its own buffer and the
\* buffer reaches the sink in one step.
C4_WholeRecords ==
    Len(args) # 0 =>
        /\ CompleteRecords(stdout)
        /\ \A w \in DOMAIN wk :
              wk[w].pc = "print" =>
                  /\ Len(wk[w].buffer) = 3
                  /\ wk[w].buffer[1] = wk[w].filename

\* The records of two workers are interleaved in the sink: a record of d/b
\* stands between the two records of d/a.
C4_Witness ==
    /\ workers = 2
    /\ enqueued = <<"d/a", "d/b">>
    /\ Len(stdout) = 12
    /\ stdout[1] = "d/a" /\ stdout[5] = "d/b" /\ stdout[9] = "d/a"

\* C5: a file for which the engine returns no diff keeps its content and
\* gets no output record, whatever the write mode; and with write mode
\* disabled no file's content ever differs from its content at the start.
C5_Untouched ==
    Len(args) # 0 =>
        /\ \A p \in Paths :
              NumDiffs(content0[p]) = 0 =>
                  content[p] = content0[p] /\ p \notin Range(stdout)
        /\ ~writeit => content = content0

\* A run without write mode that read a file without typos and reported
\* the typo of the other file.
C5_Witness ==
    /\ Done
    /\ ~writeit
    /\ content0["d/a"] = <<"ok">>
    /\ processed["d/a"] > 0
    /\ "d/b" \in Range(stdout)
    /\ count = 1

\* C6 (as claimed): a write-back that fails is reported, leaves the file in
\* its original state, and the worker goes on with the next path.
C6_WriteFailureHandled ==
    [][\A w \in DOMAIN wk :
          (/\ wk[w].pc \in {"write", "writedata"}
           /\ wk'[w].pc = "range"
           /\ content'[wk[w].filename] # wk[w].updated)
          => /\ stderr' # stderr
             /\ content'[wk[w].filename] = content0[wk[w].filename]]_vars

\* The lines of a stream that name the given path, in order.
RECURSIVE LinesOf(_, _)
LinesOf(s, p) ==
    IF s = <<>> THEN <<>>
    ELSE LET n == CHOOSE k \in 1..Len(s) : s[k] = "\n"
             line == SubSeq(s, 1, n)
             rest == LinesOf(SubSeq(s, n + 1, Len(s)), p)
         IN  IF p \in Range(line) THEN line \o rest ELSE rest

\* The records a run prints for a file with the given content.
ExpectedRecords(p, text) ==
    LET ch == Replace(ReadTextFile(text).orig).changes
    IN  IF discard THEN <<>>
        ELSE Flatten([k \in DOMAIN ch |->
                 Println(<<>>, FALSE,
                         Execute(TemplateOf(format, writeit),
                                 [ch[k] EXCEPT !.Filename = p]))])

\* C7: a file whose read fails is logged once per read, gets no diff
\* record, adds nothing to the count and is never written; the workers go
\* on to the other paths, and every file that is enqueued once gets the
\* records and the count its own content gives.
C7_ReadFailureSkipped ==
    /\ \A p \in Paths :
          ReadTextFile(content0[p]).err =>
              /\ content[p] = content0[p]
              /\ p \notin Range(stdout)
              /\ LinesOf(stderr, p) =
                    Flatten([k \in 1..(processed[p]
                                - Cardinality({w \in DOMAIN wk :
                                     wk[w].pc = "read" /\ wk[w].filename = p}))
                             |-> <<"ERR", p, "\n">>])
    /\ Done =>
          /\ \A p \in Paths : processed[p] = Occurrences(enqueued, p)
          /\ \A q \in Paths :
                Occurrences(enqueued, q) = 1 =>
                    LinesOf(stdout, q) = ExpectedRecords(q, content0[q])
          /\ Distinct(enqueued) => count = ExpectedTotal(enqueued)

\* A binary file was read before a file with a typo, whose record and
\* count are there.
C7_Witness ==
    /\ Done
    /\ enqueued = <<"d/a", "d/b">>
    /\ content0["d/a"] = <<"NUL">>
    /\ content0["d/b"] = <<"teh">>
    /\ LinesOf(stderr, "d/a") # <<>>
    /\ LinesOf(stdout, "d/b") # <<>>
    /\ count = 1

\* C8 (as claimed): no path is taken from the channel twice, and no two
\* workers hold the same path at the same time.
C8_PathsUnique ==
    /\ \A p \in Paths : processed[p] <= 1
    /\ \A v, w \in DOMAIN wk :
          v # w /\ wk[v].filename # "" => wk[v].filename # wk[w].filename

\* C9 (as claimed): the process exits with status 2 exactly when -error is
\* set and the final count is not zero; in particular a run that counted
\* nothing never exits with 2.
C9_Status2Iff ==
    mainPC = "exited" => (exitStatus = 2 <=> (exitError /\ count # 0))

\* C10 (as claimed): the tuple sequence write emits is the same whatever
\* order toTuples met the map's entries in.
C10_Deterministic ==
    genPC = "written" =>
        \A order \in Orders(DOMAIN data) :
            SortStableFunc(toTuples(data, order)) = genOut

====
